---- MODULE Spec2Model ----
(***************************************************************************)
(* Model of the saros-dlmm-demo core:                                      *)
(*   - the bin distribution helpers (makeCenteredDistribution, ...),       *)
(*   - LimitOrderService (limit orders, stop-loss orders, order book).     *)
(*                                                                         *)
(* Prices are whole numbers on a small grid around the mock base price     *)
(* 100 used by findBinForPrice.  Time is a logical clock.  An async        *)
(* method runs atomically from one await to the next, as JavaScript        *)
(* schedules it; every await on a collaborator is a separate step whose    *)
(* answer is chosen by the environment.                                    *)
(***************************************************************************)
EXTENDS Integers, Sequences, FiniteSets, TLC

(***************************************************************************)
(* Bounds of the model.                                                    *)
(***************************************************************************)
MaxWidth == 17
\* Orders (limit and stop-loss together) created in one run of Spec.
MaxOrders == 2
\* Limit orders created in one run of BookSpec.
MaxBookOrders == 3
MaxTime == 1
\* Longest simulation, in days.
MaxDuration == 30
\* Longest value series handed to calculateMaxDrawdown on its own.
MaxSeries == 4
\* Most strategies in one comparison.
MaxStrategies == 3

(***************************************************************************)
(* Input domains.                                                          *)
(***************************************************************************)
Widths == -1..MaxWidth
Signals == {-5, 0, 3}
Shapes == {"CENTERED", "MOMENTUM", "MEAN_REVERSION", "CONSERVATIVE", "AGGRESSIVE",
           "SINGLE_SIDED_X", "SINGLE_SIDED_Y"}

\* An optional field that is not set, and the result of a find() that finds
\* nothing.
Undefined == -1

KnownPairs == {"pairA"}
Pairs == KnownPairs \cup {"pairU"}
Sides == {"buy", "sell"}
Amounts == {1}
BookAmounts == {1, 2}
OrderPrices == {99, 100}
BookPrices == {99, 100, 101}
MarketPrices == {99, 100, 101}
Expiries == {Undefined, 0}
Positions == {"pos1"}
TriggerPrices == {0, 1, 2}
PositionValues == {0, 50}

Durations == 1..MaxDuration
Strategies == {"passive", "active", "momentum", "mean_reversion"}
RiskTolerances == {"low", "medium", "high"}
InitialCapitals == {10000}
SeriesValues == {80, 90, 100, 120}
TotalReturns == {10000, 25000}

(***************************************************************************)
(* Generic helpers.                                                        *)
(***************************************************************************)
Max(a, b) == IF a >= b THEN a ELSE b
Min(a, b) == IF a <= b THEN a ELSE b
Range(s) == {s[i] : i \in DOMAIN s}

\* Math.sign on the integers.
Sign(x) == IF x > 0 THEN 1 ELSE IF x < 0 THEN -1 ELSE 0

\* `width | 0`: ToInt32, the identity on every integer of the 32-bit range.
ToInt32(n) == n

\* The floating-point NaN: a value outside the range of every number of the
\* model.  An operator that can meet it tests for it before it computes.
NaN == -1000000000

\* Division rounding toward zero, for fixed-point quotients of either sign.
TruncDiv(n, d) == IF n >= 0 THEN n \div d ELSE -((-n) \div d)

\* Math.sqrt on fixed-point numbers: the integer square root.
RECURSIVE SqrtSearch(_, _, _)
SqrtSearch(n, lo, hi) ==
    IF lo >= hi THEN lo
    ELSE LET mid == (lo + hi + 1) \div 2
         IN  IF mid * mid <= n THEN SqrtSearch(n, mid, hi)
             ELSE SqrtSearch(n, lo, mid - 1)

Sqrt(n) == SqrtSearch(n, 0, Min(n, 46340))

(***************************************************************************)
(* Distribution helpers.                                                   *)
(***************************************************************************)
TOTAL_BPS == 10000

\* The loop `for (i = -half; i <= half; i++) bins.push(...)` shared by the
\* generators: bin ids i + shift, `per` on the base side for i < 0 and on
\* the quote side for i > 0, nothing on i = 0.
LoopBins(half, per, shift) ==
    [j \in 1..(2 * half + 1) |->
        LET i == j - half - 1
        IN  [binRelativeId |-> i + shift,
             bpsX |-> IF i < 0 THEN per ELSE 0,
             bpsY |-> IF i > 0 THEN per ELSE 0]]

\* Variant of makeCenteredDistribution: the leftover goes to the last bin.
makeCenteredDistribution_LeftoverOnEdge(width) ==
    LET w == Max(1, ToInt32(width))
        half == w \div 2
        per == TOTAL_BPS \div w
        bins == LoopBins(half, per, 0)
        rem == TOTAL_BPS - per * w
    IN  [j \in DOMAIN bins |->
            IF j = Len(bins)
            THEN [bins[j] EXCEPT !.bpsY = @ + rem]
            ELSE bins[j]]

makeCenteredDistribution(width) ==
    LET w == Max(1, ToInt32(width))
        half == w \div 2
        per == TOTAL_BPS \div w
        bins == LoopBins(half, per, 0)
        used == per * w
        rem == TOTAL_BPS - used
    IN  [j \in DOMAIN bins |->
            IF bins[j].binRelativeId = 0
            THEN [bins[j] EXCEPT !.bpsX = @ + (rem \div 2),
                                 !.bpsY = @ + (rem - (rem \div 2))]
            ELSE bins[j]]

\* Variant of makeMomentumDistribution: the shift is a third of the width.
makeMomentumDistribution_ShiftByThird(width, momentum) ==
    LET w == Max(1, ToInt32(width))
        half == w \div 2
        shift == Sign(momentum) * (w \div 3)
        per == TOTAL_BPS \div w
    IN  LoopBins(half, per, shift)

makeMomentumDistribution(width, momentum) ==
    LET w == Max(1, ToInt32(width))
        half == w \div 2
        shift == Sign(momentum) * (w \div 4)
        per == TOTAL_BPS \div w
    IN  LoopBins(half, per, shift)

makeMeanReversionDistribution(width, deviation) ==
    LET w == Max(1, ToInt32(width))
        half == w \div 2
        shift == (-Sign(deviation)) * (w \div 4)
        per == TOTAL_BPS \div w
    IN  LoopBins(half, per, shift)

makeConservativeDistribution(width) ==
    LET w == Max(1, Min(width, 5))
        half == w \div 2
        per == TOTAL_BPS \div w
    IN  LoopBins(half, per, 0)

\* Variant of makeAggressiveDistribution: the width is not capped.
makeAggressiveDistribution_Uncapped(width) ==
    LET w == Max(1, width)
        half == w \div 2
        per == TOTAL_BPS \div w
    IN  LoopBins(half, per, 0)

makeAggressiveDistribution(width) ==
    LET w == Max(1, Min(width, 15))
        half == w \div 2
        per == TOTAL_BPS \div w
    IN  LoopBins(half, per, 0)

\* Variant of makeSingleSidedX: the remainder goes to the farthest bin.
makeSingleSidedX_RemainderLast(width) ==
    LET per == IF width = 0 THEN 0 ELSE TOTAL_BPS \div width
        used == per * width
    IN  [j \in 1..Max(0, width) |->
            [binRelativeId |-> -j,
             bpsX |-> IF j = width THEN per + (TOTAL_BPS - used) ELSE per,
             bpsY |-> 0]]

\* Array.from({ length: width }) is empty for a width of 0 or less; `per` is
\* Infinity for width 0 and is then used by no bin.
makeSingleSidedX(width) ==
    LET per == IF width = 0 THEN 0 ELSE TOTAL_BPS \div width
        used == per * width
    IN  [j \in 1..Max(0, width) |->
            [binRelativeId |-> -j,
             bpsX |-> IF j = 1 THEN per + (TOTAL_BPS - used) ELSE per,
             bpsY |-> 0]]

makeSingleSidedY(width) ==
    LET per == IF width = 0 THEN 0 ELSE TOTAL_BPS \div width
        used == per * width
    IN  [j \in 1..Max(0, width) |->
            [binRelativeId |-> j,
             bpsX |-> 0,
             bpsY |-> IF j = 1 THEN per + (TOTAL_BPS - used) ELSE per]]

RECURSIVE SumBps(_)
SumBps(distribution) ==
    IF distribution = <<>> THEN 0
    ELSE distribution[1].bpsX + distribution[1].bpsY + SumBps(Tail(distribution))

validateDistribution(distribution) == SumBps(distribution) = TOTAL_BPS

\* Variant of normalizeDistribution: the scaled weights are rounded up.
normalizeDistribution_RoundsUp(distribution) ==
    LET totalBps == SumBps(distribution)
    IN  IF totalBps = 0 THEN distribution
        ELSE [j \in DOMAIN distribution |->
                [binRelativeId |-> distribution[j].binRelativeId,
                 bpsX |-> (distribution[j].bpsX * TOTAL_BPS) \div totalBps + 1,
                 bpsY |-> (distribution[j].bpsY * TOTAL_BPS) \div totalBps + 1]]

\* floor(bps * (10000 / totalBps)): exact when totalBps is 10000 (the factor
\* is 1), and the floor of the exact quotient otherwise.
normalizeDistribution(distribution) ==
    LET totalBps == SumBps(distribution)
    IN  IF totalBps = 0 THEN distribution
        ELSE [j \in DOMAIN distribution |->
                [binRelativeId |-> distribution[j].binRelativeId,
                 bpsX |-> (distribution[j].bpsX * TOTAL_BPS) \div totalBps,
                 bpsY |-> (distribution[j].bpsY * TOTAL_BPS) \div totalBps]]

\* The generator selected by a shape tag (the switch of the rebalance page).
GenerateShape(shape, width, signal) ==
    CASE shape = "CENTERED" -> makeCenteredDistribution(width)
      [] shape = "MOMENTUM" -> makeMomentumDistribution(width, signal)
      [] shape = "MEAN_REVERSION" -> makeMeanReversionDistribution(width, signal)
      [] shape = "CONSERVATIVE" -> makeConservativeDistribution(width)
      [] shape = "AGGRESSIVE" -> makeAggressiveDistribution(width)
      [] shape = "SINGLE_SIDED_X" -> makeSingleSidedX(width)
      [] shape = "SINGLE_SIDED_Y" -> makeSingleSidedY(width)

(***************************************************************************)
(* getDistributionMetrics.  Fixed point: the mean of the bin ids in        *)
(* tenths of a bin, the standard deviation in thousandths, concentration   *)
(* in 1/10000, skewness in hundredths.                                     *)
(***************************************************************************)
BinWeight(d) == d.bpsX + d.bpsY

RECURSIVE SumSquares(_)
SumSquares(distribution) ==
    IF distribution = <<>> THEN 0
    ELSE BinWeight(distribution[1]) * BinWeight(distribution[1])
         + SumSquares(Tail(distribution))

RECURSIVE WeightedIds(_)
WeightedIds(distribution) ==
    IF distribution = <<>> THEN 0
    ELSE distribution[1].binRelativeId * BinWeight(distribution[1])
         + WeightedIds(Tail(distribution))

\* sum of (binRelativeId - mean)^2 * total, in 1/100 bin^2 * bps.
RECURSIVE VarianceSum(_, _)
VarianceSum(distribution, mean) ==
    IF distribution = <<>> THEN 0
    ELSE LET dev == distribution[1].binRelativeId * 10 - mean
         IN  dev * dev * BinWeight(distribution[1])
             + VarianceSum(Tail(distribution), mean)

\* sum of ((binRelativeId - mean) / stdDev)^3 * (total / 10000), stdDev > 0.
RECURSIVE SkewSum(_, _, _)
SkewSum(distribution, mean, stdDev) ==
    IF distribution = <<>> THEN 0
    ELSE LET dev == distribution[1].binRelativeId * 10 - mean
             z == TruncDiv(dev * 10000, stdDev)
         IN  TruncDiv(TruncDiv(z * z * z, 10000) * BinWeight(distribution[1]),
                      10000)
             + SkewSum(Tail(distribution), mean, stdDev)

\* The reduce over an empty array returns its initial value 0 whatever the
\* mean is.  Otherwise a NaN mean (0 / 0, total weight 0) makes every term
\* NaN; so does a standard deviation of 0: a term is then (0 / 0)^3 * w for
\* a bin at the mean and (+-Infinity)^3 * 0 for a bin off the mean, which
\* has no weight.
getDistributionMetrics(distribution) ==
    LET totalBps == SumBps(distribution)
        activeBins == Cardinality({j \in DOMAIN distribution :
                        distribution[j].bpsX > 0 \/ distribution[j].bpsY > 0})
        concentration == SumSquares(distribution) \div 10000
        mean == IF totalBps = 0 THEN NaN
                ELSE TruncDiv(2 * WeightedIds(distribution) * 10
                              + Sign(WeightedIds(distribution)) * totalBps,
                              2 * totalBps)
        variance == IF distribution = <<>> THEN 0
                    ELSE IF mean = NaN THEN NaN
                    ELSE VarianceSum(distribution, mean)
        stdDev == IF variance = NaN THEN NaN ELSE Sqrt(variance)
        skewness == IF distribution = <<>> THEN 0
                    ELSE IF stdDev = NaN \/ stdDev = 0 THEN NaN
                    ELSE SkewSum(distribution, mean, stdDev)
    IN  [computed |-> TRUE, totalBps |-> totalBps, activeBins |-> activeBins,
         concentration |-> concentration, skewness |-> skewness]

NoMetrics ==
    [computed |-> FALSE, totalBps |-> 0, activeBins |-> 0,
     concentration |-> 0, skewness |-> 0]

(***************************************************************************)
(* LimitOrderService: pure helpers.                                        *)
(***************************************************************************)
basePrice == 100
\* Math.log(1 + binStep) for binStep = 0.01, in millionths.
LogBinStep == 9950
\* Math.round(Math.log(0) / ...) = -Infinity.
NegInfinity == -1000000

\* Math.log(price / basePrice) in millionths, on the price grid.
LogRatio(price) ==
    CASE price = 98 -> -20203
      [] price = 99 -> -10050
      [] price = 100 -> 0
      [] price = 101 -> 9950
      [] price = 102 -> 19803

\* Math.round(n / d) for d > 0: floor(n / d + 1/2).
RoundDiv(n, d) == (2 * n + d) \div (2 * d)

findBinForPrice(pairInfo, price) ==
    IF price = 0 THEN NegInfinity
    ELSE RoundDiv(LogRatio(price), LogBinStep)

\* dlmmService.getPairInfo: the pair record, or null for an unlisted pair.
getPairInfo(pair) == IF pair \in KnownPairs THEN pair ELSE "null"

\* The comparator handed to entries.sort: it looks at the side of its first
\* argument only.
Compare(a, b) ==
    IF a.side = "buy" THEN b.price - a.price ELSE a.price - b.price

Reverse(s) == [i \in 1..Len(s) |-> s[Len(s) + 1 - i]]

\* Array.prototype.sort as V8 runs it on an array shorter than 64 elements:
\* the leading run is counted (and reversed when strictly descending), the
\* rest is inserted by binary insertion.
RECURSIVE RunEnd(_, _, _)
RunEnd(s, idx, isDescending) ==
    IF idx > Len(s) THEN Len(s)
    ELSE LET order == Compare(s[idx], s[idx - 1])
         IN  IF (isDescending /\ order >= 0) \/ (~isDescending /\ order < 0)
             THEN idx - 1
             ELSE RunEnd(s, idx + 1, isDescending)

CountAndMakeRun(s) ==
    LET isDescending == Compare(s[2], s[1]) < 0
        run == RunEnd(s, 3, isDescending)
    IN  [run |-> run,
         arr |-> IF isDescending
                 THEN Reverse(SubSeq(s, 1, run)) \o SubSeq(s, run + 1, Len(s))
                 ELSE s]

RECURSIVE BinarySearch(_, _, _, _)
BinarySearch(s, pivot, left, right) ==
    IF left >= right THEN left
    ELSE LET mid == left + ((right - left) \div 2)
         IN  IF Compare(pivot, s[mid]) < 0
             THEN BinarySearch(s, pivot, left, mid)
             ELSE BinarySearch(s, pivot, mid + 1, right)

RECURSIVE BinaryInsertionSort(_, _)
BinaryInsertionSort(s, start) ==
    IF start > Len(s) THEN s
    ELSE LET pivot == s[start]
             left == BinarySearch(s, pivot, 1, start)
             moved == SubSeq(s, 1, left - 1) \o <<pivot>>
                      \o SubSeq(s, left, start - 1)
                      \o SubSeq(s, start + 1, Len(s))
         IN  BinaryInsertionSort(moved, start + 1)

SortEntries(entries) ==
    IF Len(entries) < 2 THEN entries
    ELSE LET r == CountAndMakeRun(entries)
         IN  IF r.run < Len(entries)
             THEN BinaryInsertionSort(r.arr, r.run + 1)
             ELSE r.arr

EntryOf(order) ==
    [price |-> order.price, amount |-> order.amount,
     binId |-> order.binId, side |-> order.side]

addToOrderBook(book, order) ==
    [book EXCEPT ![order.pair] = SortEntries(Append(@, EntryOf(order)))]

\* entries.findIndex(...): the first matching position, 0 when there is none.
MatchesEntry(entry, order) ==
    /\ entry.price = order.price
    /\ entry.amount = order.amount
    /\ entry.side = order.side

FindIndex(entries, order) ==
    IF \E i \in DOMAIN entries : MatchesEntry(entries[i], order)
    THEN CHOOSE i \in DOMAIN entries :
            /\ MatchesEntry(entries[i], order)
            /\ \A j \in 1..(i - 1) : ~MatchesEntry(entries[j], order)
    ELSE 0

RemoveAt(s, i) == SubSeq(s, 1, i - 1) \o SubSeq(s, i + 1, Len(s))

removeFromOrderBook(book, order) ==
    LET entries == book[order.pair]
        index == FindIndex(entries, order)
    IN  IF index # 0
        THEN [book EXCEPT ![order.pair] = RemoveAt(entries, index)]
        ELSE book

\* `order.expiresAt && new Date() > order.expiresAt`
IsExpired(order, t) == order.expiresAt # Undefined /\ t > order.expiresAt

\* Variant of ShouldFill: a buy order needs a price strictly below its limit.
ShouldFill_StrictBuy(order, price) ==
    \/ order.side = "buy" /\ price < order.price
    \/ order.side = "sell" /\ price >= order.price

\* shouldFill of checkOrderFills.
ShouldFill(order, price) ==
    \/ order.side = "buy" /\ price <= order.price
    \/ order.side = "sell" /\ price >= order.price

\* Variant of EvaluateOrder: the fill is decided before the expiry.
EvaluateOrder_FillFirst(order, price, t) ==
    IF ShouldFill(order, price)
    THEN [order EXCEPT !.status = "filled",
                       !.filledAmount = order.amount,
                       !.filledPrice = price]
    ELSE IF IsExpired(order, t)
    THEN [order EXCEPT !.status = "expired"]
    ELSE order

\* The body of one iteration of checkOrderFills after its await: the order
\* as the iteration leaves it.
EvaluateOrder(order, price, t) ==
    IF IsExpired(order, t)
    THEN [order EXCEPT !.status = "expired"]
    ELSE IF ShouldFill(order, price)
    THEN [order EXCEPT !.status = "filled",
                       !.filledAmount = order.amount,
                       !.filledPrice = price]
    ELSE order

\* Variant of PushFilled: every order the iteration changed is pushed.
PushFilled_AnyChange(filled, orderId, order) ==
    IF order.status # "pending" THEN Append(filled, orderId) ELSE filled

\* filledOrders.push(order), reached only on the fill branch.
PushFilled(filled, orderId, order) ==
    IF order.status = "filled" THEN Append(filled, orderId) ELSE filled

\* Variant of NextWithStatus: the loop does not skip on the status.
NextWithStatus_IgnoresStatus(ords, from, wanted) ==
    IF from <= Len(ords) THEN from ELSE 0

\* The next entry of the map, from position `from` on, that passes the
\* `status !== wanted` skip of the loop; 0 when the iteration is over.
NextWithStatus(ords, from, wanted) ==
    IF \E i \in from..Len(ords) : ords[i].status = wanted
    THEN CHOOSE i \in from..Len(ords) :
            /\ ords[i].status = wanted
            /\ \A j \in from..(i - 1) : ords[j].status # wanted
    ELSE 0

\* position.totalValueUSD / position.totalValueUSD; NaN for 0 / 0.
PositionPrice(totalValueUSD) ==
    IF totalValueUSD = 0 THEN NaN ELSE totalValueUSD \div totalValueUSD

\* Variant of ShouldTrigger: the price must be strictly below the trigger.
ShouldTrigger_Strict(order, price) ==
    price # NaN /\ price < order.triggerPrice

\* `currentPrice <= order.triggerPrice`; every comparison with NaN is false.
ShouldTrigger(order, price) ==
    price # NaN /\ price <= order.triggerPrice

(***************************************************************************)
(* StrategySimulator.  Fixed point: prices in 1/10000 (100 is 1000000),    *)
(* portfolio values and fees in 1/100, returns, price changes and ratios   *)
(* of two amounts in 1/100000, exposure in 1/100.  JavaScript arrays are    *)
(* sequences: the element at index k is s[k + 1].                          *)
(***************************************************************************)
RateUnit == 100000

\* n / d as a rate; 0 / 0 is NaN and NaN propagates.  No quotient of the
\* simulator has a zero denominator under a non-zero numerator.  A large
\* numerator is scaled in two steps to stay within 32 bits.
Ratio(n, d) ==
    IF n = NaN \/ d = NaN THEN NaN
    ELSE IF d = 0 /\ n = 0 THEN NaN
    ELSE IF n <= 20000 /\ n >= -20000 THEN TruncDiv(n * RateUnit, d)
    ELSE TruncDiv(n * 1000, d \div 100)

\* Array.prototype.slice(start, end).
Slice(s, start, end) ==
    LET len == Len(s)
        from == IF start < 0 THEN Max(len + start, 0) ELSE Min(start, len)
        to == IF end < 0 THEN Max(len + end, 0) ELSE Min(end, len)
    IN  IF from >= to THEN <<>> ELSE SubSeq(s, from + 1, to)

RECURSIVE SumSeq(_)
SumSeq(s) == IF s = <<>> THEN 0 ELSE s[1] + SumSeq(Tail(s))

\* reduce((a, b) => a + b, 0) / length.
Average(s) == IF s = <<>> THEN NaN ELSE TruncDiv(SumSeq(s), Len(s))

\* The outcomes of Math.random() that a price path is built from: the change
\* of the price on each day, within the (-0.0099, 0.0101) the generator can
\* produce.
PriceScenarios == {"FLAT", "UP", "DOWN", "VEE"}
UpChange == 1009
DownChange == -900
VeeTurn == 14
RandomChange(scenario, day) ==
    CASE scenario = "FLAT" -> 0
      [] scenario = "UP" -> UpChange
      [] scenario = "DOWN" -> DownChange
      [] scenario = "VEE" -> IF day < VeeTurn THEN DownChange ELSE UpChange

StartingPrice == 1000000

\* generatePriceData: `days` prices, the first one 100; days is
\* ceil((endDate - startDate) / one day), which is params.duration.
RECURSIVE generatePriceData(_, _)
generatePriceData(days, scenario) ==
    IF days <= 1 THEN <<StartingPrice>>
    ELSE LET prices == generatePriceData(days - 1, scenario)
             last == prices[Len(prices)]
         IN  Append(prices,
                    last + TruncDiv(last * RandomChange(scenario, days - 1),
                                    RateUnit))

BalancedWidth(riskTolerance) ==
    IF riskTolerance = "low" THEN 5 ELSE IF riskTolerance = "medium" THEN 7 ELSE 9
AdjustedWidth(riskTolerance) ==
    IF riskTolerance = "low" THEN 3 ELSE IF riskTolerance = "medium" THEN 5 ELSE 7

generateBalancedDistribution(riskTolerance) ==
    LET width == BalancedWidth(riskTolerance)
    IN  LoopBins(width \div 2, 10000 \div width, 0)

generateVolatilityAdjustedDistribution(params, priceChange) ==
    LET width == AdjustedWidth(params.riskTolerance)
    IN  LoopBins(width \div 2, 10000 \div width, Sign(priceChange) * (width \div 4))

generateMomentumDistribution(params, momentum) ==
    LET width == AdjustedWidth(params.riskTolerance)
    IN  LoopBins(width \div 2, 10000 \div width, Sign(momentum) * (width \div 3))

generateMeanReversionDistribution(params, deviation) ==
    LET width == BalancedWidth(params.riskTolerance)
    IN  LoopBins(width \div 2, 10000 \div width, (-Sign(deviation)) * (width \div 4))

Decision(rebalance, newDistribution, reason) ==
    [rebalance |-> rebalance, newDistribution |-> newDistribution, reason |-> reason]

\* Variant of applyPassiveStrategy: it also rebalances on the first day.
applyPassiveStrategy_FirstDayToo(params, dayIndex) ==
    IF dayIndex % 7 = 0 \/ dayIndex = 1
    THEN Decision(TRUE, generateBalancedDistribution(params.riskTolerance),
                  "Weekly rebalance")
    ELSE Decision(FALSE, <<>>, "No rebalance needed")

applyPassiveStrategy(params, dayIndex) ==
    IF dayIndex % 7 = 0
    THEN Decision(TRUE, generateBalancedDistribution(params.riskTolerance),
                  "Weekly rebalance")
    ELSE Decision(FALSE, <<>>, "No rebalance needed")

getVolatilityThreshold(riskTolerance) ==
    CASE riskTolerance = "low" -> 1000
      [] riskTolerance = "medium" -> 2000
      [] riskTolerance = "high" -> 3000
      [] OTHER -> 2000

Abs(x) == IF x < 0 THEN -x ELSE x

applyActiveStrategy(params, price, priceChange, dayIndex) ==
    IF Abs(priceChange) > getVolatilityThreshold(params.riskTolerance)
    THEN Decision(TRUE, generateVolatilityAdjustedDistribution(params, priceChange),
                  "High volatility detected")
    ELSE Decision(FALSE, <<>>, "Volatility within threshold")

\* (w[w.length - 1] - w[0]) / w[0]; NaN on an empty window, whose elements
\* are undefined.
WindowReturn(w) ==
    IF w = <<>> THEN NaN ELSE Ratio(w[Len(w)] - w[1], w[1])

applyMomentumStrategy(params, priceData, dayIndex) ==
    IF dayIndex < 5 THEN Decision(FALSE, <<>>, "Insufficient data")
    ELSE LET shortTerm == Slice(priceData, dayIndex - 5, dayIndex)
             longTerm == Slice(priceData, dayIndex - 20, dayIndex)
             shortTermReturn == WindowReturn(shortTerm)
             longTermReturn == WindowReturn(longTerm)
         IN  IF /\ shortTermReturn # NaN
                /\ longTermReturn # NaN
                /\ shortTermReturn > longTermReturn
                /\ shortTermReturn > 2000
             THEN Decision(TRUE, generateMomentumDistribution(params, shortTermReturn),
                           "Momentum detected")
             ELSE Decision(FALSE, <<>>, "No momentum signal")

applyMeanReversionStrategy(params, priceData, dayIndex) ==
    IF dayIndex < 10 THEN Decision(FALSE, <<>>, "Insufficient data")
    ELSE LET recent == Slice(priceData, dayIndex - 5, dayIndex)
             historical == Slice(priceData, dayIndex - 20, dayIndex - 5)
             recentAvg == Average(recent)
             historicalAvg == Average(historical)
             deviation == IF recentAvg = NaN \/ historicalAvg = NaN THEN NaN
                          ELSE Ratio(recentAvg - historicalAvg, historicalAvg)
         IN  IF deviation # NaN /\ Abs(deviation) > 5000
             THEN Decision(TRUE, generateMeanReversionDistribution(params, deviation),
                           "Mean reversion signal")
             ELSE Decision(FALSE, <<>>, "No mean reversion signal")

applyStrategy(params, price, priceChange, value, dayIndex, priceData) ==
    CASE params.strategy = "passive" -> applyPassiveStrategy(params, dayIndex)
      [] params.strategy = "active" ->
            applyActiveStrategy(params, price, priceChange, dayIndex)
      [] params.strategy = "momentum" ->
            applyMomentumStrategy(params, priceData, dayIndex)
      [] params.strategy = "mean_reversion" ->
            applyMeanReversionStrategy(params, priceData, dayIndex)
      [] OTHER -> Decision(FALSE, <<>>, "Unknown strategy")

\* feeRate 0.003.
executeRebalance(value, distribution, price, pair) ==
    LET fees == TruncDiv(value * 3, 1000)
    IN  [newValue |-> value - fees, fees |-> fees, amount |-> value]

\* Variant of getLiquidityExposure: every strategy is exposed by 0.8.
getLiquidityExposure_Flat(params) == 80

getLiquidityExposure(params) ==
    CASE params.strategy = "passive" -> 80
      [] params.strategy = "active" -> 90
      [] params.strategy = "momentum" -> 85
      [] params.strategy = "mean_reversion" -> 75
      [] OTHER -> 80

\* Variant of DrawdownLoop: the peak stays at the first value.
RECURSIVE DrawdownLoop_FixedPeak(_, _, _, _)
DrawdownLoop_FixedPeak(values, k, peak, maxDrawdown) ==
    IF k > Len(values) THEN maxDrawdown
    ELSE DrawdownLoop_FixedPeak(values, k + 1, peak,
            Max(maxDrawdown, Ratio(peak - values[k], peak)))

\* The loop of calculateMaxDrawdown from element k on.
RECURSIVE DrawdownLoop(_, _, _, _)
DrawdownLoop(values, k, peak, maxDrawdown) ==
    IF k > Len(values) THEN maxDrawdown
    ELSE LET newPeak == IF values[k] > peak THEN values[k] ELSE peak
         IN  DrawdownLoop(values, k + 1, newPeak,
                Max(maxDrawdown, Ratio(newPeak - values[k], newPeak)))

\* An empty series leaves the loop without an iteration.
calculateMaxDrawdown(values) ==
    IF values = <<>> THEN 0 ELSE DrawdownLoop(values, 1, values[1], 0)

RECURSIVE SumSquaredDeviations(_, _)
SumSquaredDeviations(returns, avg) ==
    IF returns = <<>> THEN 0
    ELSE (returns[1] - avg) * (returns[1] - avg)
         + SumSquaredDeviations(Tail(returns), avg)

\* Population standard deviation; NaN for an empty series (0 / 0).
StdDev(returns) ==
    IF returns = <<>> THEN NaN
    ELSE Sqrt(TruncDiv(SumSquaredDeviations(returns, Average(returns)),
                       Len(returns)))

\* a / b of two rates, in thousandths; NaN if either is NaN.
Quotient(a, b) ==
    IF a = NaN \/ b = NaN THEN NaN ELSE TruncDiv(a * 1000, b)

\* `stdDev === 0` is false for NaN.
calculateSharpeRatio(returns) ==
    LET avgReturn == Average(returns)
        stdDev == StdDev(returns)
    IN  IF stdDev = 0 THEN 0 ELSE Quotient(avgReturn, stdDev)

RECURSIVE Negatives(_)
Negatives(returns) ==
    IF returns = <<>> THEN <<>>
    ELSE IF returns[1] < 0 THEN <<returns[1]>> \o Negatives(Tail(returns))
    ELSE Negatives(Tail(returns))

RECURSIVE Positives(_)
Positives(returns) ==
    IF returns = <<>> THEN <<>>
    ELSE IF returns[1] > 0 THEN <<returns[1]>> \o Positives(Tail(returns))
    ELSE Positives(Tail(returns))

RECURSIVE SumOfSquares(_)
SumOfSquares(s) ==
    IF s = <<>> THEN 0 ELSE s[1] * s[1] + SumOfSquares(Tail(s))

\* [...returns].sort((a, b) => a - b): ascending.
RECURSIVE InsertSorted(_, _)
InsertSorted(sorted, x) ==
    IF sorted = <<>> THEN <<x>>
    ELSE IF x < sorted[1] THEN <<x>> \o sorted
    ELSE <<sorted[1]>> \o InsertSorted(Tail(sorted), x)

RECURSIVE SortAscending(_)
SortAscending(s) ==
    IF s = <<>> THEN <<>>
    ELSE InsertSorted(SortAscending(SubSeq(s, 1, Len(s) - 1)), s[Len(s)])

\* sqrt(sum of squares / negativeReturns.length); 0 / 0 when no return is
\* negative.
DownsideDeviation(returns) ==
    LET negativeReturns == Negatives(returns)
    IN  IF negativeReturns = <<>> THEN NaN
        ELSE Sqrt(TruncDiv(SumOfSquares(negativeReturns), Len(negativeReturns)))

calculateAdvancedMetrics(returns, values) ==
    LET avgReturn == Average(returns)
        volatility == StdDev(returns)
        maxDrawdown == calculateMaxDrawdown(values)
        calmarRatio == IF maxDrawdown = 0 THEN 0 ELSE Quotient(avgReturn, maxDrawdown)
        downsideDeviation == DownsideDeviation(returns)
        sortinoRatio == IF downsideDeviation = 0 THEN 0
                        ELSE Quotient(avgReturn, downsideDeviation)
        sortedReturns == SortAscending(returns)
        var95Index == Len(sortedReturns) \div 20
        var95 == IF var95Index + 1 > Len(sortedReturns) THEN 0
                 ELSE sortedReturns[var95Index + 1]
        cvar95 == TruncDiv(SumSeq(Slice(sortedReturns, 0, var95Index + 1)),
                           var95Index + 1)
    IN  [volatility |-> volatility, calmarRatio |-> calmarRatio,
         sortinoRatio |-> sortinoRatio, var95 |-> var95, cvar95 |-> cvar95]

\* Variant of Prefers: the earlier candidate is also kept on a tie.
Prefers_KeepsOnTie(ranking, a, b) ==
    CASE ranking = "best" -> a.totalReturn >= b.totalReturn
      [] ranking = "worst" -> a.totalReturn <= b.totalReturn
      [] ranking = "riskAdjusted" ->
            a.sharpeRatio # NaN /\ b.sharpeRatio # NaN
            /\ a.sharpeRatio >= b.sharpeRatio

\* The test of a reduce callback of compareStrategies: TRUE keeps the
\* earlier candidate a, FALSE takes the later candidate b.  A comparison
\* with NaN is false.
Prefers(ranking, a, b) ==
    CASE ranking = "best" -> a.totalReturn > b.totalReturn
      [] ranking = "worst" -> a.totalReturn < b.totalReturn
      [] ranking = "riskAdjusted" ->
            a.sharpeRatio # NaN /\ b.sharpeRatio # NaN
            /\ a.sharpeRatio > b.sharpeRatio

\* strategies.reduce(callback) without an initial value: the accumulator
\* starts at the first key.  Keys are positions in input order.
RECURSIVE ReduceKeys(_, _, _, _)
ReduceKeys(results, ranking, k, a) ==
    IF k > Len(results) THEN a
    ELSE ReduceKeys(results, ranking, k + 1,
                    IF Prefers(ranking, results[a], results[k]) THEN a ELSE k)

\* Called with at least one result (reduce throws on an empty array).
compareStrategies(results) ==
    [bestStrategy |-> ReduceKeys(results, "best", 2, 1),
     worstStrategy |-> ReduceKeys(results, "worst", 2, 1),
     riskAdjustedWinner |-> ReduceKeys(results, "riskAdjusted", 2, 1)]

\* The last call: its name, the arguments that decide it, and what it handed
\* back: "ok" with the value returned (the ids of the orders returned), or the
\* message of the SarosError thrown.
NoArgs == [pair |-> "none", price |-> Undefined, id |-> 0]
Outcome(op, args, outcome, value) ==
    [op |-> op, args |-> args, outcome |-> outcome, value |-> value]

VARIABLES
    genShape,        \* shape tag of the last generated distribution
    genWidth,        \* its width argument
    genSignal,       \* its momentum / deviation argument
    dist,            \* the generated distribution
    distValid,       \* validateDistribution(dist)
    metrics,         \* getDistributionMetrics(dist), once computed
    normalized,      \* normalizeDistribution(dist), once computed
    orders,          \* LimitOrderService.orders, in insertion order
    stopLossOrders,  \* LimitOrderService.stopLossOrders, in insertion order
    orderBook,       \* LimitOrderService.orderBook: pair -> entries
    now,             \* the clock read by `new Date()`
    fillsPc,         \* checkOrderFills: "idle" or "await"
    fillsIdx,        \* checkOrderFills: order awaiting market data
    filledOrders,    \* checkOrderFills: local result list
    currentPrice,    \* checkOrderFills: the price its last await returned
    stopsPc,         \* checkStopLossTriggers: "idle" or "await"
    stopsIdx,        \* checkStopLossTriggers: order awaiting positions
    triggeredOrders, \* checkStopLossTriggers: local result list
    position,        \* checkStopLossTriggers: what its last find() returned
    result,          \* outcome of the last call
    simParams,       \* runSimulation: params
    simScenario,     \* runSimulation: the outcomes of Math.random()
    simPc,           \* runSimulation: "idle", "loop" or "done"
    priceData,       \* runSimulation: priceData
    simDay,          \* runSimulation: the loop index i
    portfolioValue,  \* runSimulation: portfolioValue
    totalFees,       \* runSimulation: totalFees
    dailyReturns,    \* runSimulation: dailyReturns
    portfolioValues, \* runSimulation: portfolioValues
    rebalanceEvents, \* runSimulation: rebalanceEvents
    simResult,       \* runSimulation: the scalars of the result returned
    seriesValues,    \* calculateMaxDrawdown: values
    maxDrawdownOut,  \* calculateMaxDrawdown: the value returned
    strategyResults, \* compareStrategies: results, in key order
    comparison       \* compareStrategies: the value returned

distVars == <<genShape, genWidth, genSignal, dist, distValid, metrics,
             normalized>>
orderVars == <<orders, stopLossOrders, orderBook, now, fillsPc, fillsIdx,
               filledOrders, currentPrice, stopsPc, stopsIdx, triggeredOrders,
               position, result>>
simVars == <<simParams, simScenario, simPc, priceData, simDay, portfolioValue,
             totalFees, dailyReturns, portfolioValues, rebalanceEvents,
             simResult>>
analyticsVars == <<seriesValues, maxDrawdownOut, strategyResults, comparison>>
vars == <<genShape, genWidth, genSignal, dist, distValid, metrics, normalized,
          orders, stopLossOrders, orderBook, now, fillsPc, fillsIdx,
          filledOrders, currentPrice, stopsPc, stopsIdx, triggeredOrders,
          position, result,
          simParams, simScenario, simPc, priceData, simDay, portfolioValue,
          totalFees, dailyReturns, portfolioValues, rebalanceEvents,
          simResult,
          seriesValues, maxDrawdownOut, strategyResults, comparison>>

NotNormalized == [computed |-> FALSE, bins |-> <<>>]

DistInit ==
    /\ genShape = "none"
    /\ genWidth = 0
    /\ genSignal = 0
    /\ dist = <<>>
    /\ distValid = FALSE
    /\ metrics = NoMetrics
    /\ normalized = NotNormalized

OrderInit ==
    /\ orders = <<>>
    /\ stopLossOrders = <<>>
    /\ orderBook = [p \in Pairs |-> <<>>]
    /\ now = 0
    /\ fillsPc = "idle"
    /\ fillsIdx = 0
    /\ filledOrders = <<>>
    /\ currentPrice = Undefined
    /\ stopsPc = "idle"
    /\ stopsIdx = 0
    /\ triggeredOrders = <<>>
    /\ position = Undefined
    /\ result = Outcome("none", NoArgs, "ok", <<>>)

NoParams ==
    [initialCapital |-> 0, strategy |-> "none", duration |-> 0,
     riskTolerance |-> "none"]
NoMetricsYet ==
    [volatility |-> 0, calmarRatio |-> 0, sortinoRatio |-> 0, var95 |-> 0,
     cvar95 |-> 0]
NoResult ==
    [outcome |-> "none", finalValue |-> 0, totalReturn |-> 0, netReturn |-> 0,
     maxDrawdown |-> 0, sharpeRatio |-> 0, winRate |-> 0, totalFees |-> 0,
     metrics |-> NoMetricsYet]
NoComparison ==
    [bestStrategy |-> 0, worstStrategy |-> 0, riskAdjustedWinner |-> 0]

SimInit ==
    /\ simParams = NoParams
    /\ simScenario = "none"
    /\ simPc = "idle"
    /\ priceData = <<>>
    /\ simDay = 0
    /\ portfolioValue = 0
    /\ totalFees = 0
    /\ dailyReturns = <<>>
    /\ portfolioValues = <<>>
    /\ rebalanceEvents = <<>>
    /\ simResult = NoResult

AnalyticsInit ==
    /\ seriesValues = <<>>
    /\ maxDrawdownOut = 0
    /\ strategyResults = <<>>
    /\ comparison = NoComparison

Init == DistInit /\ OrderInit /\ SimInit /\ AnalyticsInit

(***************************************************************************)
(* LimitOrderService: the calls.  An order's id is its position in the     *)
(* map (generateOrderId never repeats an id); the maps never lose a key.   *)
(***************************************************************************)
Idle == fillsPc = "idle" /\ stopsPc = "idle"

fillsVars == <<fillsPc, fillsIdx, filledOrders, currentPrice>>
stopsVars == <<stopsPc, stopsIdx, triggeredOrders, position>>

\* The clock advances; it does so between calls and while a call awaits.
Tick ==
    /\ now < MaxTime
    /\ now' = now + 1
    /\ UNCHANGED <<orders, stopLossOrders, orderBook, fillsVars, stopsVars, result>>
    /\ UNCHANGED <<distVars, simVars, analyticsVars>>

createLimitOrder(pair, side, amount, price, expiresAt) ==
    LET pairInfo == getPairInfo(pair)
        binId == findBinForPrice(pairInfo, price)
        args == [NoArgs EXCEPT !.pair = pair, !.price = price]
        orderId == Len(orders) + 1
        order == [pair |-> pair, side |-> side, amount |-> amount,
                  price |-> price, binId |-> binId, status |-> "pending",
                  expiresAt |-> expiresAt,
                  filledAmount |-> Undefined, filledPrice |-> Undefined]
    IN  /\ IF pairInfo = "null"
           THEN /\ result' = Outcome("createLimitOrder", args, "Pair not found", <<>>)
                /\ UNCHANGED <<orders, orderBook>>
           ELSE IF binId = -1
           THEN /\ result' = Outcome("createLimitOrder", args,
                                     "Price out of range for current bins", <<>>)
                /\ UNCHANGED <<orders, orderBook>>
           ELSE /\ orders' = Append(orders, order)
                /\ orderBook' = addToOrderBook(orderBook, order)
                /\ result' = Outcome("createLimitOrder", args, "ok", <<orderId>>)
        /\ UNCHANGED <<stopLossOrders, now, fillsVars, stopsVars>>
        /\ UNCHANGED <<distVars, simVars, analyticsVars>>

createStopLossOrder(positionKey, triggerPrice, amount) ==
    LET orderId == Len(stopLossOrders) + 1
        order == [position |-> positionKey, triggerPrice |-> triggerPrice,
                  amount |-> amount, status |-> "active"]
    IN  /\ stopLossOrders' = Append(stopLossOrders, order)
        /\ result' = Outcome("createStopLossOrder", NoArgs, "ok", <<orderId>>)
        /\ UNCHANGED <<orders, orderBook, now, fillsVars, stopsVars>>
        /\ UNCHANGED <<distVars, simVars, analyticsVars>>

\* Variant of cancelLimitOrder: the status of the order is not looked at.
cancelLimitOrder_NoStateCheck(orderId) ==
    /\ IF orderId \notin DOMAIN orders
       THEN /\ result' = Outcome("cancelLimitOrder", [NoArgs EXCEPT !.id = orderId],
                                 "Order not found", <<>>)
            /\ UNCHANGED <<orders, orderBook>>
       ELSE /\ orders' = [orders EXCEPT ![orderId].status = "cancelled"]
            /\ orderBook' = removeFromOrderBook(orderBook, orders[orderId])
            /\ result' = Outcome("cancelLimitOrder", [NoArgs EXCEPT !.id = orderId],
                                 "ok", <<>>)
    /\ UNCHANGED <<stopLossOrders, now, fillsVars, stopsVars>>
    /\ UNCHANGED <<distVars, simVars, analyticsVars>>

cancelLimitOrder(orderId) ==
    /\ IF orderId \notin DOMAIN orders
       THEN /\ result' = Outcome("cancelLimitOrder", [NoArgs EXCEPT !.id = orderId],
                                 "Order not found", <<>>)
            /\ UNCHANGED <<orders, orderBook>>
       ELSE IF orders[orderId].status # "pending"
       THEN /\ result' = Outcome("cancelLimitOrder", [NoArgs EXCEPT !.id = orderId],
                                 "Order cannot be cancelled", <<>>)
            /\ UNCHANGED <<orders, orderBook>>
       ELSE /\ orders' = [orders EXCEPT ![orderId].status = "cancelled"]
            /\ orderBook' = removeFromOrderBook(orderBook, orders[orderId])
            /\ result' = Outcome("cancelLimitOrder", [NoArgs EXCEPT !.id = orderId],
                                 "ok", <<>>)
    /\ UNCHANGED <<stopLossOrders, now, fillsVars, stopsVars>>
    /\ UNCHANGED <<distVars, simVars, analyticsVars>>

cancelStopLossOrder(orderId) ==
    /\ IF orderId \notin DOMAIN stopLossOrders
       THEN /\ result' = Outcome("cancelStopLossOrder", [NoArgs EXCEPT !.id = orderId],
                                 "Stop loss order not found", <<>>)
            /\ UNCHANGED stopLossOrders
       ELSE IF stopLossOrders[orderId].status # "active"
       THEN /\ result' = Outcome("cancelStopLossOrder", [NoArgs EXCEPT !.id = orderId],
                                 "Stop loss order cannot be cancelled", <<>>)
            /\ UNCHANGED stopLossOrders
       ELSE /\ stopLossOrders' = [stopLossOrders EXCEPT ![orderId].status = "cancelled"]
            /\ result' = Outcome("cancelStopLossOrder", [NoArgs EXCEPT !.id = orderId],
                                 "ok", <<>>)
    /\ UNCHANGED <<orders, orderBook, now, fillsVars, stopsVars>>
    /\ UNCHANGED <<distVars, simVars, analyticsVars>>

\* checkOrderFills from its call to its first await (or to its return when
\* no order is pending).
checkOrderFillsCall ==
    LET next == NextWithStatus(orders, 1, "pending")
    IN  /\ fillsPc = "idle"
        /\ IF next = 0
           THEN /\ result' = Outcome("checkOrderFills", NoArgs, "ok", <<>>)
                /\ UNCHANGED fillsVars
           ELSE /\ fillsPc' = "await"
                /\ fillsIdx' = next
                /\ filledOrders' = <<>>
                /\ UNCHANGED currentPrice
                /\ result' = Outcome("checkOrderFills", NoArgs, "running", <<>>)
        /\ UNCHANGED <<orders, stopLossOrders, orderBook, now, stopsVars>>
        /\ UNCHANGED <<distVars, simVars, analyticsVars>>

\* checkOrderFills from the answer of getMarketData to the next await, or to
\* the return.  marketPrice is parseFloat(marketData.price).
checkOrderFillsResume(marketPrice) ==
    LET orderId == fillsIdx
        order == EvaluateOrder(orders[orderId], marketPrice, now)
        updated == [orders EXCEPT ![orderId] = order]
        filled == PushFilled(filledOrders, orderId, order)
        next == NextWithStatus(updated, orderId + 1, "pending")
    IN  /\ fillsPc = "await"
        /\ currentPrice' = marketPrice
        /\ orders' = updated
        /\ orderBook' = IF order.status = "filled"
                        THEN removeFromOrderBook(orderBook, order)
                        ELSE orderBook
        /\ IF next = 0
           THEN /\ fillsPc' = "idle"
                /\ fillsIdx' = 0
                /\ filledOrders' = <<>>
                /\ result' = Outcome("checkOrderFills", NoArgs, "ok", filled)
           ELSE /\ fillsPc' = "await"
                /\ fillsIdx' = next
                /\ filledOrders' = filled
                /\ UNCHANGED result
        /\ UNCHANGED <<stopLossOrders, now, stopsVars>>
        /\ UNCHANGED <<distVars, simVars, analyticsVars>>

\* checkStopLossTriggers from its call to its first await (or its return).
checkStopLossTriggersCall ==
    LET next == NextWithStatus(stopLossOrders, 1, "active")
    IN  /\ stopsPc = "idle"
        /\ IF next = 0
           THEN /\ result' = Outcome("checkStopLossTriggers", NoArgs, "ok", <<>>)
                /\ UNCHANGED stopsVars
           ELSE /\ stopsPc' = "await"
                /\ stopsIdx' = next
                /\ triggeredOrders' = <<>>
                /\ UNCHANGED position
                /\ result' = Outcome("checkStopLossTriggers", NoArgs, "running", <<>>)
        /\ UNCHANGED <<orders, stopLossOrders, orderBook, now, fillsVars>>
        /\ UNCHANGED <<distVars, simVars, analyticsVars>>

\* checkStopLossTriggers from the answer of getUserPositions to the next
\* await, or to the return.  found is the totalValueUSD of the position that
\* equals order.position, or Undefined when the list holds no such position.
checkStopLossTriggersResume(found) ==
    LET orderId == stopsIdx
        order == stopLossOrders[orderId]
        fires == found # Undefined /\ ShouldTrigger(order, PositionPrice(found))
        updated == IF fires
                   THEN [stopLossOrders EXCEPT ![orderId].status = "triggered"]
                   ELSE stopLossOrders
        triggered == IF fires THEN Append(triggeredOrders, orderId)
                     ELSE triggeredOrders
        next == NextWithStatus(updated, orderId + 1, "active")
    IN  /\ stopsPc = "await"
        /\ position' = found
        /\ stopLossOrders' = updated
        /\ IF next = 0
           THEN /\ stopsPc' = "idle"
                /\ stopsIdx' = 0
                /\ triggeredOrders' = <<>>
                /\ result' = Outcome("checkStopLossTriggers", NoArgs, "ok", triggered)
           ELSE /\ stopsPc' = "await"
                /\ stopsIdx' = next
                /\ triggeredOrders' = triggered
                /\ UNCHANGED result
        /\ UNCHANGED <<orders, orderBook, now, fillsVars>>
        /\ UNCHANGED <<distVars, simVars, analyticsVars>>

\* Calls run one at a time: a call starts only when no pass is suspended.
Next ==
    \/ Tick
    \/ \E pair \in Pairs, side \in Sides, amount \in Amounts,
          price \in OrderPrices, expiresAt \in Expiries :
            /\ Idle
            /\ Len(orders) + Len(stopLossOrders) < MaxOrders
            /\ createLimitOrder(pair, side, amount, price, expiresAt)
    \/ \E positionKey \in Positions, triggerPrice \in TriggerPrices :
            /\ Idle
            /\ Len(orders) + Len(stopLossOrders) < MaxOrders
            /\ createStopLossOrder(positionKey, triggerPrice, 1)
    \/ \E orderId \in 1..(MaxOrders + 1) : Idle /\ cancelLimitOrder(orderId)
    \/ \E orderId \in 1..(MaxOrders + 1) : Idle /\ cancelStopLossOrder(orderId)
    \/ Idle /\ checkOrderFillsCall
    \/ \E marketPrice \in MarketPrices : checkOrderFillsResume(marketPrice)
    \/ Idle /\ checkStopLossTriggersCall
    \/ \E found \in PositionValues \cup {Undefined} :
            checkStopLossTriggersResume(found)

Spec == Init /\ [][Next]_vars

\* The order book of one pair under limit orders without expiry, on a wider
\* price grid.
BookNext ==
    \/ \E side \in Sides, amount \in BookAmounts, price \in BookPrices :
            /\ Idle
            /\ Len(orders) < MaxBookOrders
            /\ createLimitOrder("pairA", side, amount, price, Undefined)
    \/ \E orderId \in 1..MaxBookOrders : Idle /\ cancelLimitOrder(orderId)
    \/ Idle /\ checkOrderFillsCall
    \/ \E marketPrice \in MarketPrices : checkOrderFillsResume(marketPrice)

BookSpec == Init /\ [][BookNext]_vars

\* The service on the event loop: a pass is suspended at each await, and a
\* cancel of either kind may run in between.
ConcNext ==
    \/ Tick
    \/ \E side \in Sides, price \in OrderPrices, expiresAt \in Expiries :
            /\ Idle
            /\ Len(orders) + Len(stopLossOrders) < MaxOrders
            /\ createLimitOrder("pairA", side, 1, price, expiresAt)
    \/ \E positionKey \in Positions, triggerPrice \in TriggerPrices :
            /\ Idle
            /\ Len(orders) + Len(stopLossOrders) < MaxOrders
            /\ createStopLossOrder(positionKey, triggerPrice, 1)
    \/ \E orderId \in 1..MaxOrders : cancelLimitOrder(orderId)
    \/ \E orderId \in 1..MaxOrders : cancelStopLossOrder(orderId)
    \/ checkOrderFillsCall
    \/ \E marketPrice \in MarketPrices : checkOrderFillsResume(marketPrice)
    \/ checkStopLossTriggersCall
    \/ \E found \in PositionValues \cup {Undefined} :
            checkStopLossTriggersResume(found)

ConcSpec == Init /\ [][ConcNext]_vars

\* A caller generates a distribution and validates it.
Generate(shape, width, signal) ==
    /\ genShape' = shape
    /\ genWidth' = width
    /\ genSignal' = signal
    /\ dist' = GenerateShape(shape, width, signal)
    /\ distValid' = validateDistribution(GenerateShape(shape, width, signal))
    /\ metrics' = NoMetrics
    /\ normalized' = NotNormalized
    /\ UNCHANGED <<orderVars, simVars, analyticsVars>>

\* The simulator generates the distribution of a momentum rebalance.
GenerateInSimulator(riskTolerance, momentum) ==
    LET bins == generateMomentumDistribution([riskTolerance |-> riskTolerance],
                                             momentum)
    IN  /\ genShape' = "SIMULATOR_MOMENTUM"
        /\ genWidth' = AdjustedWidth(riskTolerance)
        /\ genSignal' = momentum
        /\ dist' = bins
        /\ distValid' = validateDistribution(bins)
        /\ metrics' = NoMetrics
        /\ normalized' = NotNormalized
        /\ UNCHANGED <<orderVars, simVars, analyticsVars>>

\* A caller asks for the metrics of the distribution it generated.
Measure ==
    /\ genShape # "none"
    /\ ~metrics.computed
    /\ metrics' = getDistributionMetrics(dist)
    /\ UNCHANGED <<genShape, genWidth, genSignal, dist, distValid, normalized>>
    /\ UNCHANGED <<orderVars, simVars, analyticsVars>>

\* A caller normalizes the distribution it generated.
Normalize ==
    /\ genShape # "none"
    /\ ~normalized.computed
    /\ normalized' = [computed |-> TRUE, bins |-> normalizeDistribution(dist)]
    /\ UNCHANGED <<genShape, genWidth, genSignal, dist, distValid, metrics>>
    /\ UNCHANGED <<orderVars, simVars, analyticsVars>>

DistNext ==
    \/ \E shape \in Shapes, width \in Widths, signal \in Signals :
            Generate(shape, width, signal)
    \/ \E riskTolerance \in RiskTolerances, momentum \in Signals :
            GenerateInSimulator(riskTolerance, momentum)
    \/ Measure
    \/ Normalize

DistSpec == Init /\ [][DistNext]_vars

(***************************************************************************)
(* StrategySimulator.runSimulation.  The method is synchronous; its loop   *)
(* is taken one day at a time.  The result's annualizedReturn (Math.pow    *)
(* with a fractional exponent) is not represented.                         *)
(***************************************************************************)
runSimulationCall(initialCapital, strategy, duration, riskTolerance, scenario) ==
    /\ simPc \in {"idle", "done"}
    /\ simParams' = [initialCapital |-> initialCapital, strategy |-> strategy,
                     duration |-> duration, riskTolerance |-> riskTolerance]
    /\ simScenario' = scenario
    /\ priceData' = generatePriceData(duration, scenario)
    /\ portfolioValue' = initialCapital
    /\ totalFees' = 0
    /\ dailyReturns' = <<>>
    /\ portfolioValues' = <<initialCapital>>
    /\ rebalanceEvents' = <<>>
    /\ simDay' = 1
    /\ simPc' = "loop"
    /\ simResult' = NoResult
    /\ UNCHANGED <<distVars, orderVars, analyticsVars>>

\* One iteration of `for (let i = 1; i < priceData.length; i++)`.
runSimulationDay ==
    /\ simPc = "loop"
    /\ simDay < Len(priceData)
    /\ LET price == priceData[simDay + 1]
           previousPrice == priceData[simDay]
           priceChange == Ratio(price - previousPrice, previousPrice)
           strategyResult == applyStrategy(simParams, price, priceChange,
                                           portfolioValue, simDay, priceData)
           rebalanceResult == executeRebalance(portfolioValue,
                                  strategyResult.newDistribution, price, "pair")
           newValue ==
               IF strategyResult.rebalance THEN rebalanceResult.newValue
               ELSE portfolioValue
                    + TruncDiv(portfolioValue
                               * TruncDiv(priceChange
                                          * getLiquidityExposure(simParams), 100),
                               RateUnit)
           last == portfolioValues[Len(portfolioValues)]
       IN  /\ portfolioValue' = newValue
           /\ totalFees' = IF strategyResult.rebalance
                           THEN totalFees + rebalanceResult.fees
                           ELSE totalFees
           /\ rebalanceEvents' =
                 IF strategyResult.rebalance
                 THEN Append(rebalanceEvents,
                             [day |-> simDay, action |-> "rebalance",
                              amount |-> rebalanceResult.amount,
                              price |-> price,
                              reason |-> strategyResult.reason])
                 ELSE rebalanceEvents
           /\ dailyReturns' = Append(dailyReturns, Ratio(newValue - last, last))
           /\ portfolioValues' = Append(portfolioValues, newValue)
    /\ simDay' = simDay + 1
    /\ UNCHANGED <<simParams, simScenario, simPc, priceData, simResult>>
    /\ UNCHANGED <<distVars, orderVars, analyticsVars>>

\* After the loop: the final metrics and the return.
runSimulationReturn ==
    /\ simPc = "loop"
    /\ simDay >= Len(priceData)
    /\ LET startValue == simParams.initialCapital
           finalValue == portfolioValues[Len(portfolioValues)]
           totalReturn == Ratio(finalValue - startValue, startValue)
       IN  simResult' =
             [outcome |-> "ok",
              finalValue |-> finalValue,
              totalReturn |-> totalReturn,
              netReturn |-> totalReturn - Ratio(totalFees, startValue),
              maxDrawdown |-> calculateMaxDrawdown(portfolioValues),
              sharpeRatio |-> calculateSharpeRatio(dailyReturns),
              winRate |-> Ratio(Len(Positives(dailyReturns)), Len(dailyReturns)),
              totalFees |-> totalFees,
              metrics |-> calculateAdvancedMetrics(dailyReturns, portfolioValues)]
    /\ simPc' = "done"
    /\ UNCHANGED <<simParams, simScenario, priceData, simDay, portfolioValue,
                   totalFees, dailyReturns, portfolioValues, rebalanceEvents>>
    /\ UNCHANGED <<distVars, orderVars, analyticsVars>>

SimNext ==
    \/ \E initialCapital \in InitialCapitals, strategy \in Strategies,
          duration \in Durations, riskTolerance \in RiskTolerances,
          scenario \in PriceScenarios :
            runSimulationCall(initialCapital, strategy, duration,
                              riskTolerance, scenario)
    \/ runSimulationDay
    \/ runSimulationReturn

SimSpec == Init /\ [][SimNext]_vars

\* The drawdown of a value series and the ranking of a set of results, each
\* on inputs of its own.
MeasureDrawdown(values) ==
    /\ seriesValues' = values
    /\ maxDrawdownOut' = calculateMaxDrawdown(values)
    /\ UNCHANGED <<strategyResults, comparison>>
    /\ UNCHANGED <<distVars, orderVars, simVars>>

RankStrategies(results) ==
    /\ strategyResults' = results
    /\ comparison' = compareStrategies(results)
    /\ UNCHANGED <<seriesValues, maxDrawdownOut>>
    /\ UNCHANGED <<distVars, orderVars, simVars>>

SharpeRatios == {NaN, 0, 1000}

DrawdownNext ==
    \E n \in 1..MaxSeries : \E values \in [1..n -> SeriesValues] :
        MeasureDrawdown(values)

DrawdownSpec == Init /\ [][DrawdownNext]_vars

CompareNext ==
    \E n \in 1..MaxStrategies :
        \E results \in [1..n -> [totalReturn : TotalReturns,
                                   sharpeRatio : SharpeRatios]] :
            RankStrategies(results)

CompareSpec == Init /\ [][CompareNext]_vars

(***************************************************************************)
(* Properties.                                                             *)
(***************************************************************************)
TerminalLimit == {"filled", "cancelled", "expired"}
TerminalStop == {"triggered", "cancelled"}

\* A step in which checkOrderFills resumes from its await: it evaluates
\* order fillsIdx against the price currentPrice' at time now.
FillsStep == fillsPc = "await" /\ (fillsPc' = "idle" \/ fillsIdx' # fillsIdx)

\* A step in which checkStopLossTriggers resumes from its await: it
\* evaluates order stopsIdx against the lookup result position'.
StopsStep == stopsPc = "await" /\ (stopsPc' = "idle" \/ stopsIdx' # stopsIdx)

\* The list checkOrderFills has collected after a step: its local list, or
\* the value it returned when the step ended the pass.
Collected(pc, local, res) == IF pc = "idle" THEN res.value ELSE local

\* C1: for every width >= 1 the bins of makeCenteredDistribution(width) have
\* bpsX + bpsY summing to exactly 10000.
C1_CenteredSumsToTotal ==
    (genShape = "CENTERED" /\ genWidth >= 1) => SumBps(dist) = 10000

\* C2: for every width >= 1 and every signal, validateDistribution accepts
\* the output of the momentum, mean-reversion, conservative and aggressive
\* generators.
C2_GeneratorsValidate ==
    (genShape \in {"MOMENTUM", "MEAN_REVERSION", "CONSERVATIVE", "AGGRESSIVE"}
     /\ genWidth >= 1) => distValid

\* C3: with calls running one at a time, a limit order's status changes only
\* from pending to filled, cancelled or expired, a stop-loss order's only
\* from active to triggered or cancelled, and no order ever leaves the map.
C3_TerminalStatusIsFinal ==
    [][/\ \A i \in DOMAIN orders :
            /\ i \in DOMAIN orders'
            /\ orders'[i].status # orders[i].status
                => /\ orders[i].status = "pending"
                   /\ orders'[i].status \in TerminalLimit
       /\ \A i \in DOMAIN stopLossOrders :
            /\ i \in DOMAIN stopLossOrders'
            /\ stopLossOrders'[i].status # stopLossOrders[i].status
                => /\ stopLossOrders[i].status = "active"
                   /\ stopLossOrders'[i].status \in TerminalStop]_vars

\* A terminal limit order and a terminal stop-loss order exist, and a cancel
\* of an order that is no longer pending has just been refused.
C3_Witness ==
    /\ \E i \in DOMAIN orders : orders[i].status \in TerminalLimit
    /\ \E i \in DOMAIN stopLossOrders : stopLossOrders[i].status \in TerminalStop
    /\ result.op = "cancelLimitOrder"
    /\ result.outcome = "Order cannot be cancelled"

\* C4: an evaluation of an unexpired pending order fills it exactly when the
\* observed price is <= the limit (buy) or >= the limit (sell); the filled
\* order records the observed price and its own amount, an unfilled one
\* stays pending.
C4_FillsExactlyAtOrBeyondLimit ==
    [][FillsStep =>
        LET before == orders[fillsIdx]
            after == orders'[fillsIdx]
            observed == currentPrice'
            unexpired == before.expiresAt = Undefined \/ ~(now > before.expiresAt)
            reached == \/ before.side = "buy" /\ observed <= before.price
                       \/ before.side = "sell" /\ observed >= before.price
        IN  (before.status = "pending" /\ unexpired) =>
                /\ (after.status = "filled") <=> reached
                /\ after.status = "filled" =>
                        /\ after.filledPrice = observed
                        /\ after.filledAmount = before.amount
                /\ after.status # "filled" => after = before]_vars

\* A buy order and a sell order have both been filled at a price equal to
\* their limit price.
C4_Witness ==
    /\ \E i \in DOMAIN orders :
            /\ orders[i].side = "buy"
            /\ orders[i].status = "filled"
            /\ orders[i].filledPrice = orders[i].price
            /\ orders[i].filledAmount = orders[i].amount
    /\ \E i \in DOMAIN orders :
            /\ orders[i].side = "sell"
            /\ orders[i].status = "filled"
            /\ orders[i].filledPrice = orders[i].price

\* C5: an evaluation that finds a pending order past its expiresAt marks it
\* expired and does not fill it, whatever the observed price, and an expired
\* order stays expired and unfilled.
C5_ExpiryDecidedBeforeFill ==
    [][/\ FillsStep =>
            LET before == orders[fillsIdx]
                after == orders'[fillsIdx]
            IN  (/\ before.status = "pending"
                 /\ before.expiresAt # Undefined
                 /\ now > before.expiresAt) =>
                    /\ after.status = "expired"
                    /\ after.filledPrice = Undefined
                    /\ after.filledAmount = Undefined
       /\ \A i \in DOMAIN orders :
            orders[i].status = "expired" =>
                /\ orders'[i].status = "expired"
                /\ orders'[i].filledPrice = Undefined]_vars

\* The only order was evaluated at a price that meets its fill condition,
\* and the pass left it expired.
C5_Witness ==
    /\ Len(orders) = 1
    /\ orders[1].status = "expired"
    /\ orders[1].side = "buy"
    /\ currentPrice # Undefined
    /\ currentPrice <= orders[1].price
    /\ result.op = "checkOrderFills"
    /\ result.outcome = "ok"

\* C6 as stated: in every evaluation the returned list gains exactly the
\* orders whose status the evaluation changed (filled or expired).
C6_ReturnsEveryChangedOrder ==
    [][FillsStep =>
        LET gained == Range(Collected(fillsPc', filledOrders', result'))
                      \ Range(filledOrders)
        IN  \A i \in DOMAIN orders :
                (orders'[i].status # orders[i].status) <=> (i \in gained)]_vars

\* C6 amended: the returned list gains exactly the orders the evaluation
\* filled; an order it expired is not returned.  A pass that finds no
\* pending order returns the empty list.
C6_ReturnsExactlyFilledOrders ==
    [][/\ FillsStep =>
            LET collected == Collected(fillsPc', filledOrders', result')
                gained == Range(collected) \ Range(filledOrders)
            IN  /\ SubSeq(collected, 1, Len(filledOrders)) = filledOrders
                /\ Len(collected) <= Len(filledOrders) + 1
                /\ \A i \in DOMAIN orders :
                    (orders[i].status # "filled" /\ orders'[i].status = "filled")
                        <=> (i \in gained)
                /\ \A i \in DOMAIN orders :
                    orders'[i].status = "expired" => i \notin Range(collected)
       /\ (fillsPc = "idle" /\ fillsPc' = "idle" /\ result' # result
           /\ result'.op = "checkOrderFills") => result'.value = <<>>]_vars

\* A pass has returned exactly the order it filled while the other order is
\* expired and not in the returned list.
C6_Witness ==
    /\ result.op = "checkOrderFills"
    /\ result.outcome = "ok"
    /\ Len(result.value) = 1
    /\ orders[result.value[1]].status = "filled"
    /\ \E i \in DOMAIN orders :
            orders[i].status = "expired" /\ i \notin Range(result.value)

\* The order book of `pair` after one entry equal to that of `order` was
\* taken out of `entries`.
OneEntryRemoved(entries, entriesAfter, order) ==
    \E k \in DOMAIN entries :
        /\ entries[k].price = order.price
        /\ entries[k].amount = order.amount
        /\ entries[k].side = order.side
        /\ entriesAfter = [j \in 1..(Len(entries) - 1) |->
                              IF j < k THEN entries[j] ELSE entries[j + 1]]

\* C7: a cancel with an unknown id fails with the not-found error, a cancel
\* of an order that is not pending / not active fails with the
\* cannot-be-cancelled error, both leaving orders and order book unchanged;
\* otherwise the order becomes cancelled and, for a limit order, one entry
\* equal to its own leaves the order book of its pair.
C7_CancelChecksThenCancels ==
    [][/\ (result'.op = "cancelLimitOrder"
           /\ (result' # result \/ orders' # orders)) =>
            LET id == result'.args.id
            IN  /\ stopLossOrders' = stopLossOrders
                /\ IF id \notin DOMAIN orders
                   THEN /\ result'.outcome = "Order not found"
                        /\ orders' = orders
                        /\ orderBook' = orderBook
                   ELSE IF orders[id].status # "pending"
                   THEN /\ result'.outcome = "Order cannot be cancelled"
                        /\ orders' = orders
                        /\ orderBook' = orderBook
                   ELSE /\ result'.outcome = "ok"
                        /\ orders' = [orders EXCEPT ![id].status = "cancelled"]
                        /\ OneEntryRemoved(orderBook[orders[id].pair],
                                           orderBook'[orders[id].pair], orders[id])
                        /\ \A p \in Pairs \ {orders[id].pair} :
                                orderBook'[p] = orderBook[p]
       /\ (result'.op = "cancelStopLossOrder"
           /\ (result' # result \/ stopLossOrders' # stopLossOrders)) =>
            LET id == result'.args.id
            IN  /\ orders' = orders
                /\ orderBook' = orderBook
                /\ IF id \notin DOMAIN stopLossOrders
                   THEN /\ result'.outcome = "Stop loss order not found"
                        /\ stopLossOrders' = stopLossOrders
                   ELSE IF stopLossOrders[id].status # "active"
                   THEN /\ result'.outcome = "Stop loss order cannot be cancelled"
                        /\ stopLossOrders' = stopLossOrders
                   ELSE /\ result'.outcome = "ok"
                        /\ stopLossOrders' =
                            [stopLossOrders EXCEPT ![id].status = "cancelled"]]_vars

\* One of two pending limit orders has just been cancelled: its entry has
\* left the book, the entry of the other order is still there.
C7_Witness ==
    /\ result.op = "cancelLimitOrder"
    /\ result.outcome = "ok"
    /\ Len(orders) = 2
    /\ orders[result.args.id].status = "cancelled"
    /\ \E i \in DOMAIN orders : orders[i].status = "pending"
    /\ Len(orderBook["pairA"]) = 1

\* A bin maps to every positive price: the bins of step 1% around the base
\* price cover the positive axis.
HasBin(price) == price > 0

\* C8: createLimitOrder fails with the pair-not-found error for an unknown
\* pair and with the price-out-of-range error exactly when no bin maps to
\* the price, adding nothing on failure; for every price that maps to a bin
\* it adds one pending order and one matching order-book entry.
C8_CreateFailsOnlyWithoutBin ==
    [][(result'.op = "createLimitOrder"
        /\ (result' # result \/ orders' # orders)) =>
            LET pair == result'.args.pair
                price == result'.args.price
            IN  IF pair \notin KnownPairs
                THEN /\ result'.outcome = "Pair not found"
                     /\ orders' = orders
                     /\ orderBook' = orderBook
                ELSE IF ~HasBin(price)
                THEN /\ result'.outcome = "Price out of range for current bins"
                     /\ orders' = orders
                     /\ orderBook' = orderBook
                ELSE /\ result'.outcome = "ok"
                     /\ Len(orders') = Len(orders) + 1
                     /\ SubSeq(orders', 1, Len(orders)) = orders
                     /\ orders'[Len(orders')].status = "pending"
                     /\ orders'[Len(orders')].price = price
                     /\ Len(orderBook'[pair]) = Len(orderBook[pair]) + 1]_vars

\* C9: in every order book the buy entries are in descending price order
\* and the sell entries in ascending price order.
C9_BookSortedPerSide ==
    \A p \in Pairs :
        \A i, j \in DOMAIN orderBook[p] :
            (i < j /\ orderBook[p][i].side = orderBook[p][j].side) =>
                IF orderBook[p][i].side = "buy"
                THEN orderBook[p][i].price >= orderBook[p][j].price
                ELSE orderBook[p][i].price <= orderBook[p][j].price

C11_ValuesCoverEveryDay ==
    simPc = "done" =>
        /\ Len(portfolioValues) = simParams.duration + 1
        /\ portfolioValues[1] = simParams.initialCapital

\* The days on which a finished run rebalanced.
RebalanceDays == [k \in DOMAIN rebalanceEvents |-> rebalanceEvents[k].day]

RunningPeak(values, i) ==
    CHOOSE m \in {values[j] : j \in 1..i} : \A j \in 1..i : values[j] <= m
DrawdownAt(values, i) ==
    Ratio(RunningPeak(values, i) - values[i], RunningPeak(values, i))

\* C13: over a non-empty series of positive values calculateMaxDrawdown
\* returns the greatest (running peak - value) / running peak; it is never
\* negative, is 0 for a non-decreasing series and 1/3 for [100, 120, 80, 90].
C13_MaxDrawdownIsRunningPeakMethod ==
    seriesValues # <<>> =>
        /\ \E i \in DOMAIN seriesValues :
                maxDrawdownOut = DrawdownAt(seriesValues, i)
        /\ \A i \in DOMAIN seriesValues :
                maxDrawdownOut >= DrawdownAt(seriesValues, i)
        /\ maxDrawdownOut >= 0
        /\ (\A i \in 1..(Len(seriesValues) - 1) :
                seriesValues[i] <= seriesValues[i + 1]) => maxDrawdownOut = 0
        /\ seriesValues = <<100, 120, 80, 90>> => maxDrawdownOut = RateUnit \div 3

\* The series of the example, measured.
C13_Witness ==
    /\ seriesValues = <<100, 120, 80, 90>>
    /\ maxDrawdownOut = 33333

\* C14: for any non-empty set of results, bestStrategy has the greatest
\* totalReturn, worstStrategy the least, riskAdjustedWinner the greatest
\* sharpeRatio; for A (0.10) and B (0.25) the best is B and the worst is A.
C14_WinnersAreExtremes ==
    strategyResults # <<>> =>
        /\ \A k \in DOMAIN strategyResults :
              /\ strategyResults[k].totalReturn
                    <= strategyResults[comparison.bestStrategy].totalReturn
              /\ strategyResults[k].totalReturn
                    >= strategyResults[comparison.worstStrategy].totalReturn
              /\ strategyResults[k].sharpeRatio # NaN =>
                    /\ strategyResults[comparison.riskAdjustedWinner].sharpeRatio # NaN
                    /\ strategyResults[k].sharpeRatio
                          <= strategyResults[comparison.riskAdjustedWinner].sharpeRatio
        /\ (Len(strategyResults) = 2
            /\ strategyResults[1].totalReturn = 10000
            /\ strategyResults[2].totalReturn = 25000) =>
              comparison.bestStrategy = 2 /\ comparison.worstStrategy = 1

\* The candidates that tie with candidate w on a metric.
TiedOnReturn(w) ==
    {k \in DOMAIN strategyResults :
        strategyResults[k].totalReturn = strategyResults[w].totalReturn}
TiedOnSharpe(w) ==
    {k \in DOMAIN strategyResults :
        strategyResults[k].sharpeRatio = strategyResults[w].sharpeRatio}

\* C15, as stated: on a tie each of the three winners is the tied candidate
\* that comes first in input order.
C15_TieGoesToFirst ==
    strategyResults # <<>> =>
        /\ \A k \in TiedOnReturn(comparison.bestStrategy) :
                comparison.bestStrategy <= k
        /\ \A k \in TiedOnReturn(comparison.worstStrategy) :
                comparison.worstStrategy <= k
        /\ \A k \in TiedOnSharpe(comparison.riskAdjustedWinner) :
                comparison.riskAdjustedWinner <= k

\* C15, amended: on a tie each of the three winners is the tied candidate
\* that comes last in input order.
C15_TieGoesToLast ==
    strategyResults # <<>> =>
        /\ \A k \in TiedOnReturn(comparison.bestStrategy) :
                comparison.bestStrategy >= k
        /\ \A k \in TiedOnReturn(comparison.worstStrategy) :
                comparison.worstStrategy >= k
        /\ \A k \in TiedOnSharpe(comparison.riskAdjustedWinner) :
                comparison.riskAdjustedWinner >= k

\* Three results that tie on both metrics: every winner is the third.
C15_Witness ==
    /\ Len(strategyResults) = 3
    /\ \A k \in 1..3 : /\ strategyResults[k].totalReturn = 10000
                       /\ strategyResults[k].sharpeRatio = 1000
    /\ comparison.bestStrategy = 3
    /\ comparison.worstStrategy = 3
    /\ comparison.riskAdjustedWinner = 3

\* C16: for a non-empty daily-returns series without a negative return the
\* sortinoRatio of calculateAdvancedMetrics is exactly 0, never NaN.
C16_SortinoZeroWithoutLosses ==
    (simPc = "done" /\ dailyReturns # <<>>
     /\ \A k \in DOMAIN dailyReturns : dailyReturns[k] >= 0) =>
        simResult.metrics.sortinoRatio = 0

\* C17: runSimulation with a duration below 2, whose daily-returns series is
\* empty, fails with InsufficientData and returns no result with NaN metrics.
C17_ShortRunIsRejected ==
    (simPc = "done" /\ simParams.duration < 2) =>
        /\ simResult.outcome = "InsufficientData"
        /\ simResult.winRate # NaN
        /\ simResult.sharpeRatio # NaN
        /\ simResult.metrics.volatility # NaN
        /\ simResult.metrics.sortinoRatio # NaN

\* A state of runSimulation at the head of a loop iteration, and the step
\* that runs the iteration.
AtDay == simPc = "loop" /\ simDay < Len(priceData)
DayStep == simPc = "loop" /\ simDay' = simDay + 1

\* The price change of the day about to be simulated, and the decision the
\* strategy takes on it.
PriceChangeToday ==
    Ratio(priceData[simDay + 1] - priceData[simDay], priceData[simDay])
DecisionToday ==
    applyStrategy(simParams, priceData[simDay + 1], PriceChangeToday,
                  portfolioValue, simDay, priceData)

\* C24: on each simulated day, a rebalance takes 0.3% of the value as fee,
\* adds it to totalFees, appends one event whose amount is the value before
\* the fee and leaves the price change out; otherwise the value is multiplied
\* by 1 + priceChange * exposure (0.8 passive, 0.9 active, 0.85 momentum,
\* 0.75 mean_reversion) and totalFees and the events stay as they are.
C24_DayUpdatesPortfolio ==
    [][DayStep =>
        LET fee == TruncDiv(portfolioValue * 3, 1000)
            exposure == CASE simParams.strategy = "passive" -> 80
                          [] simParams.strategy = "active" -> 90
                          [] simParams.strategy = "momentum" -> 85
                          [] simParams.strategy = "mean_reversion" -> 75
        IN  IF DecisionToday.rebalance
            THEN /\ portfolioValue' = portfolioValue - fee
                 /\ totalFees' = totalFees + fee
                 /\ Len(rebalanceEvents') = Len(rebalanceEvents) + 1
                 /\ SubSeq(rebalanceEvents', 1, Len(rebalanceEvents)) = rebalanceEvents
                 /\ rebalanceEvents'[Len(rebalanceEvents')].amount = portfolioValue
            ELSE /\ portfolioValue' =
                        portfolioValue
                        + TruncDiv(portfolioValue
                                   * TruncDiv(PriceChangeToday * exposure, 100),
                                   RateUnit)
                 /\ totalFees' = totalFees
                 /\ rebalanceEvents' = rebalanceEvents
      ]_vars

\* A finished active run with a rebalance day and a day of market movement.
C24_Witness ==
    /\ simPc = "done"
    /\ simParams.strategy = "active"
    /\ rebalanceEvents # <<>>
    /\ Len(rebalanceEvents) < Len(dailyReturns)

\* C26: every newDistribution that a decision function returns on a
\* rebalance day sums to exactly 10000.
C26_NewDistributionSumsToTotal ==
    (AtDay /\ DecisionToday.rebalance) =>
        SumBps(DecisionToday.newDistribution) = 10000

\* The return from the first to the last of the n prices before day i, and
\* the mean of the prices at indices from..(to - 1); a window that would
\* start before index 0 starts at index 0.
TrailingReturn(n) ==
    LET first == priceData[Max(0, simDay - n) + 1]
    IN  Ratio(priceData[simDay] - first, first)
MeanOfPrices(from, to) ==
    Average(SubSeq(priceData, Max(0, from) + 1, to))

\* C27: the momentum strategy never rebalances on a day index below 5, and
\* on a day index i >= 5 it rebalances exactly when the return over the
\* trailing 5 days exceeds the return over the trailing 20 days and is
\* greater than 2%.
C27_MomentumFollowsTrailingReturns ==
    (AtDay /\ simParams.strategy = "momentum") =>
        IF simDay < 5 THEN ~DecisionToday.rebalance
        ELSE DecisionToday.rebalance <=>
                (/\ TrailingReturn(5) > TrailingReturn(20)
                 /\ TrailingReturn(5) > 2000)

\* C28: the mean_reversion strategy never rebalances on a day index below
\* 10, and on a day index i >= 10 it rebalances exactly when the mean of the
\* trailing 5 prices deviates from the mean of the 15 prices before them by
\* more than 5% of that mean, in either direction.
C28_MeanReversionFollowsTrailingMeans ==
    (AtDay /\ simParams.strategy = "mean_reversion") =>
        IF simDay < 10 THEN ~DecisionToday.rebalance
        ELSE LET recentAvg == MeanOfPrices(simDay - 5, simDay)
                 historicalAvg == MeanOfPrices(simDay - 20, simDay - 5)
             IN  DecisionToday.rebalance <=>
                    Abs(Ratio(recentAvg - historicalAvg, historicalAvg)) > 5000

\* C29: for the momentum and mean_reversion strategies the decision on day i
\* depends on the prices at indices below i only: a series that agrees with
\* priceData up to day i and has another length gives the same decision.
C29_DecisionIgnoresLaterPrices ==
    (AtDay /\ simParams.strategy \in {"momentum", "mean_reversion"}) =>
        \A n \in (simDay + 1)..Len(priceData) :
            applyStrategy(simParams, priceData[simDay + 1], PriceChangeToday,
                          portfolioValue, simDay,
                          SubSeq(priceData, 1, n)).rebalance
                = DecisionToday.rebalance

\* A distribution whose weighted variance of bin ids is 0: it has no weight,
\* or one bin holds all of it.
ZeroVariance(distribution) ==
    \/ SumBps(distribution) = 0
    \/ \E j \in DOMAIN distribution :
            BinWeight(distribution[j]) = SumBps(distribution)

\* C18: getDistributionMetrics on a distribution whose weighted variance of
\* bin ids is 0 never returns an ordinary number as skewness; it signals the
\* undefined skewness (at the least by NaN).
C18_ZeroVarianceSkewnessSignalled ==
    (metrics.computed /\ ZeroVariance(dist)) => metrics.skewness = NaN

\* C19: for every width >= 1, makeSingleSidedX(width) returns width bins
\* with ids -1..-width carrying only bpsX, makeSingleSidedY(width) width bins
\* with ids 1..width carrying only bpsY; every bin holds floor(10000/width),
\* the bin next to the center also holds the whole remainder, and the total
\* is exactly 10000.
C19_SingleSidedShape ==
    (genShape \in {"SINGLE_SIDED_X", "SINGLE_SIDED_Y"} /\ genWidth >= 1) =>
        LET sideX == genShape = "SINGLE_SIDED_X"
            per == 10000 \div genWidth
            rem == 10000 - per * genWidth
        IN  /\ Len(dist) = genWidth
            /\ {dist[j].binRelativeId : j \in DOMAIN dist} =
                    IF sideX THEN {-k : k \in 1..genWidth} ELSE 1..genWidth
            /\ \A i, j \in DOMAIN dist :
                    dist[i].binRelativeId = dist[j].binRelativeId => i = j
            /\ \A j \in DOMAIN dist :
                    LET own == IF sideX THEN dist[j].bpsX ELSE dist[j].bpsY
                        other == IF sideX THEN dist[j].bpsY ELSE dist[j].bpsX
                        first == dist[j].binRelativeId \in {-1, 1}
                    IN  /\ other = 0
                        /\ own = IF first THEN per + rem ELSE per
            /\ SumBps(dist) = 10000

\* A single-sided distribution whose first bin took a remainder.
C19_Witness ==
    /\ genShape = "SINGLE_SIDED_X"
    /\ genWidth = 3
    /\ Len(dist) = 3
    /\ dist[1].bpsX = 3334

\* C20: for every width >= 1, in makeCenteredDistribution(width) every bin
\* at +k (k > 0) has a matching bin at -k with the same total weight, the
\* negative bin holding it as base weight and the positive bin as quote
\* weight; only bin 0 carries the remainder.
C20_CenteredIsSymmetric ==
    (genShape = "CENTERED" /\ genWidth >= 1) =>
        LET per == 10000 \div genWidth
        IN  /\ \A j \in DOMAIN dist :
                    dist[j].binRelativeId > 0 =>
                        \E i \in DOMAIN dist :
                            /\ dist[i].binRelativeId = -dist[j].binRelativeId
                            /\ BinWeight(dist[i]) = BinWeight(dist[j])
                            /\ dist[i].bpsY = 0
                            /\ dist[j].bpsX = 0
            /\ \A j \in DOMAIN dist :
                    dist[j].binRelativeId # 0 => BinWeight(dist[j]) = per

\* A centered distribution with bins on both sides and a remainder on bin 0.
C20_Witness ==
    /\ genShape = "CENTERED"
    /\ genWidth = 3
    /\ \E j \in DOMAIN dist :
            dist[j].binRelativeId = 0 /\ BinWeight(dist[j]) = 1
    /\ \E j \in DOMAIN dist : dist[j].binRelativeId = 1

\* The generators that clamp their width with Math.max(1, ...).
ClampingShapes == {"CENTERED", "MOMENTUM", "MEAN_REVERSION", "CONSERVATIVE",
                   "AGGRESSIVE"}

C22_NormalizeKeepsNormalized ==
    (normalized.computed /\ SumBps(dist) = 10000) =>
        /\ Len(normalized.bins) = Len(dist)
        /\ \A j \in DOMAIN dist :
                normalized.bins[j].binRelativeId = dist[j].binRelativeId
        /\ SumBps(normalized.bins) >= 10000 - Len(dist)
        /\ SumBps(normalized.bins) <= 10000

\* A single-sided distribution of three bins, normalized.
C22_Witness ==
    /\ normalized.computed
    /\ genShape = "SINGLE_SIDED_Y"
    /\ genWidth = 3
    /\ SumBps(dist) = 10000
    /\ SumBps(normalized.bins) = 10000

\* The bin ids of a distribution, in order.
BinIds(distribution) ==
    [j \in DOMAIN distribution |-> distribution[j].binRelativeId]

\* The ids -floor(w/2)..floor(w/2), each moved by shift.
ShiftedIds(w, shift) == [j \in 1..(2 * (w \div 2) + 1) |-> j - (w \div 2) - 1 + shift]

\* C30: makeMomentumDistribution(width, s) returns the centered ids shifted
\* by sign(s) * floor(w/4), makeMeanReversionDistribution(width, d) the same
\* ids shifted by -sign(d) * floor(w/4), with w = max(1, width) and no shift
\* for a zero signal; the simulator's momentum generator shifts by
\* sign(s) * floor(w/3).
C30_ShiftDivisors ==
    LET w == Max(1, genWidth)
    IN  /\ genShape = "MOMENTUM" =>
            BinIds(dist) = ShiftedIds(w, Sign(genSignal) * (w \div 4))
        /\ genShape = "MEAN_REVERSION" =>
            BinIds(dist) = ShiftedIds(w, (-Sign(genSignal)) * (w \div 4))
        /\ (genShape \in {"MOMENTUM", "MEAN_REVERSION"} /\ genSignal = 0) =>
            BinIds(dist) = ShiftedIds(w, 0)
        /\ genShape = "SIMULATOR_MOMENTUM" =>
            BinIds(dist) = ShiftedIds(w, Sign(genSignal) * (w \div 3))

\* A momentum distribution of width 12 under a positive signal: shift 3.
C30_Witness ==
    /\ genShape = "MOMENTUM"
    /\ genWidth = 12
    /\ genSignal > 0
    /\ dist[1].binRelativeId = -3

\* The pending limit orders of a pair, and how often an entry occurs in the
\* pair's book.
PendingOf(pair) ==
    {i \in DOMAIN orders : orders[i].pair = pair /\ orders[i].status = "pending"}
EntriesLike(pair, entry) ==
    Cardinality({k \in DOMAIN orderBook[pair] : orderBook[pair][k] = entry})

\* C25: between calls, each pair's book holds exactly one entry for every
\* pending limit order of the pair and no entry for a filled, cancelled or
\* expired order.
C25_BookHoldsPendingOrders ==
    fillsPc = "idle" =>
        \A pair \in Pairs :
            /\ Len(orderBook[pair]) = Cardinality(PendingOf(pair))
            /\ \A i \in PendingOf(pair) :
                  EntriesLike(pair, EntryOf(orders[i]))
                    = Cardinality({j \in PendingOf(pair) :
                                      EntryOf(orders[j]) = EntryOf(orders[i])})

\* C23: when a cancel runs while a pass is suspended at its await for the
\* same order, the order keeps the status the cancel gave it: a cancelled
\* limit order is never marked filled or expired afterwards, a cancelled
\* stop-loss order is never marked triggered, and the book of the pair keeps
\* no entry for the cancelled order.
C23_CancelDuringPassIsKept ==
    [][/\ \A i \in DOMAIN orders :
            orders[i].status = "cancelled" =>
                /\ orders'[i].status = "cancelled"
                /\ (\A j \in DOMAIN orders' :
                        j # i => EntryOf(orders'[j]) # EntryOf(orders'[i]))
                    => EntriesLike(orders[i].pair, EntryOf(orders[i]))' = 0
       /\ \A i \in DOMAIN stopLossOrders :
            stopLossOrders[i].status = "cancelled" =>
                stopLossOrders'[i].status = "cancelled"]_vars

=============================================================================
